---- MODULE Spec2Model ----
(***************************************************************************)
(* Model of vector_space.py: DataLoader.create_documents and its two       *)
(* projections, VectorSpaceManager.create_vector_space (seed of two        *)
(* Documents, then batches merged into the base index), save/load of the   *)
(* vector store, and the process_data pipeline that sequences them.        *)
(*                                                                         *)
(* Text is modelled as a sequence of word tokens (integers): an f-string   *)
(* that joins fields with spaces is the concatenation of their tokens.     *)
(* The FAISS store of langchain is modelled by its three parts: the flat   *)
(* vector index, the docstore (id -> Document) and index_to_docstore_id.   *)
(***************************************************************************)
EXTENDS Integers, Sequences, FiniteSets, TLC

\* ---------------------------------------------------------------- bounds
MaxDocs == 203        \* largest corpus (2 seed + 100 + 100 + 1: three batches)
MaxLength == 3        \* largest explicit `length` argument
MaxBad == 3           \* a record with missing fields sits at index < MaxBad
MaxSmall == 6         \* corpora beyond this size are complete and unlimited
NumKinds == 3         \* distinct record contents; the corpus repeats them
EmbedMod == 5         \* range of the modelled 1-dimensional embedding
MaxBatchB == 3        \* SpecB: batch sizes 1..MaxBatchB
MaxDocsB == 9         \* SpecB: largest corpus
MaxK == 4             \* search sizes 1..MaxK, and the whole index

\* ------------------------------------------------------ program constants
SeedSize == 2             \* documents[:2]
DefaultBatchSize == 100   \* batch_size = 100
SearchK == 2              \* k=2

\* ---------------------------------------------------------------- helpers
None == <<>>
Some(x) == <<x>>
IsSome(o) == Len(o) = 1
Val(o) == o[1]

Min(a, b) == IF a < b THEN a ELSE b
Max(a, b) == IF a > b THEN a ELSE b

\* Python s[lo:hi] for a list s (0-based, hi exclusive, negative = from end).
PyIndex(n, k) == IF k < 0 THEN Max(n + k, 0) ELSE Min(k, n)
PySlice(s, lo, hi) ==
    LET a == PyIndex(Len(s), lo)
        b == PyIndex(Len(s), hi)
    IN  IF a >= b THEN <<>> ELSE SubSeq(s, a + 1, b)

RECURSIVE SumSeq(_)
SumSeq(s) == IF s = <<>> THEN 0 ELSE s[1] + SumSeq(Tail(s))

\* ------------------------------------------------------------ corpus file
Loaders == {"BookDataLoader", "MovieDataLoader"}

\* The fields a projection reads, in the order the f-string evaluates them.
FieldOrder(loader) ==
    IF loader = "BookDataLoader"
    THEN <<"title", "author", "publication_date", "description", "genres">>
    ELSE <<"title", "release_date", "summary", "movie_genres_list",
           "movie_actor_list">>

\* A complete record of content kind k.
FullRecord(loader, k) ==
    IF loader = "BookDataLoader"
    THEN [title |-> 1 + k, author |-> 2 * k, publication_date |-> 3,
          description |-> k * k, genres |-> <<k, 1>>]
    ELSE [movie_id |-> k, title |-> 1 + k, release_date |-> 3,
          supported_languages |-> <<1>>, movie_countries |-> <<2>>,
          summary |-> k * k, movie_genres_list |-> <<k, 1>>,
          movie_actor_list |-> IF k = 0 THEN <<>> ELSE <<2 * k>>]

Without(rec, missing) == [f \in (DOMAIN rec) \ missing |-> rec[f]]

\* The JSON array: n records, record number `bad` (1-based, 0 = none) lacks
\* the fields in `missing`.
Corpus(loader, n, bad, missing) ==
    [j \in 1..n |->
        IF j = bad
        THEN Without(FullRecord(loader, (j - 1) % NumKinds), missing)
        ELSE FullRecord(loader, (j - 1) % NumKinds)]

MissingChoices(loader) ==
    LET fo == FieldOrder(loader)
    IN  {{fo[j]} : j \in 1..Len(fo)} \cup {{fo[2], fo[4]}, {fo[5], fo[3]}}

VARIABLES
    pc,                 \* position of process_data
    data_loader_class,  \* argument of process_data
    length,             \* argument of process_data: None or Some(integer)
    json_file,          \* content of json_file_path
    batch_size,         \* batch_size of create_vector_space
    data,               \* create_documents: data
    documents,          \* process_data: documents (None until built)
    vector_store,       \* create_vector_space: vector_store (the base index)
    tempt_vector_store, \* create_vector_space: tempt_vector_store
    i,                  \* create_vector_space: loop variable
    pbar,               \* tqdm bar: [n, total]
    built_store,        \* process_data: vector_store as assigned at line 93
    disk,               \* content of save_path
    loaded_store,       \* process_data: vector_store as assigned at line 97
    search_results,     \* process_data: search_results
    error,              \* the exception that left process_data
    embed_log,          \* the calls of FAISS.from_documents: ranges [lo, hi)
    uuid                \* number of docstore ids handed out

vars == <<pc, data_loader_class, length, json_file, batch_size, data,
          documents, vector_store, tempt_vector_store, i, pbar, built_store,
          disk, loaded_store, search_results, error, embed_log, uuid>>

\* ---------------------------------------------------------- Corpus Loader
\* BookDataLoader.get_page_content / MovieDataLoader.get_page_content: the
\* f-string reads the fields left to right; item[f] raises KeyError(f) for
\* the first field the record lacks.
MissingFields_reversed(loader, item) ==
    LET fo == FieldOrder(loader)
        rev == [j \in 1..Len(fo) |-> fo[Len(fo) + 1 - j]]
    IN  SelectSeq(rev, LAMBDA f : f \notin DOMAIN item)

MissingFields(loader, item) ==
    LET fo == FieldOrder(loader)
    IN  SelectSeq(fo, LAMBDA f : f \notin DOMAIN item)

get_page_content(loader, item) ==
    IF loader = "BookDataLoader"
    THEN <<item.title, item.author, item.publication_date, item.description>>
         \o item.genres
    ELSE <<item.title, item.release_date, item.summary>>
         \o item.movie_genres_list \o item.movie_actor_list

Document(text, item) == [page_content |-> text, metadata |-> item]

Prefix_inclusive(d, len) ==
    PySlice(d, 0, IF len = None THEN Len(d) ELSE Val(len) + 1)

\* data[:length], with length = len(data) when it is None.
Prefix(d, len) == PySlice(d, 0, IF len = None THEN Len(d) ELSE Val(len))

\* The records of data[:length] that make get_page_content raise.
BadRecords(loader, d, len) ==
    {j \in 1..Len(Prefix(d, len)) : MissingFields(loader, d[j]) # <<>>}

FirstBad(loader, d, len) ==
    CHOOSE j \in BadRecords(loader, d, len) :
        \A m \in BadRecords(loader, d, len) : j <= m

create_documents(loader, d, len) ==
    LET p == Prefix(d, len)
    IN  [j \in 1..Len(p) |-> Document(get_page_content(loader, p[j]), p[j])]

\* ------------------------------------------------- embeddings and FAISS
\* The embedding provider: a deterministic map from text to a vector.
Embed(text) == <<SumSeq(text) % EmbedMod>>

\* The L2 distance of two 1-dimensional vectors.
Distance(u, v) == IF u[1] >= v[1] THEN u[1] - v[1] ELSE v[1] - u[1]

\* FAISS.from_documents(docs, embeddings), the docstore ids being the next
\* Len(docs) fresh ones after u.
from_documents(docs, u) ==
    [index |-> [j \in 1..Len(docs) |-> Embed(docs[j].page_content)],
     docstore |-> [id \in (u + 1)..(u + Len(docs)) |-> docs[id - u]],
     index_to_docstore_id |-> [j \in 1..Len(docs) |-> u + j]]

Size(store) == Len(store.index)

\* The Documents of a store in index order.
DocsOf(store) ==
    [j \in 1..Size(store) |-> store.docstore[store.index_to_docstore_id[j]]]

\* A merge that skips the Documents the base index already holds a copy of.
merge_from_dedup(base, target) ==
    LET have == {base.docstore[id] : id \in DOMAIN base.docstore}
        keep == SelectSeq([j \in 1..Size(target) |-> j],
                          LAMBDA j : DocsOf(target)[j] \notin have)
    IN  [index |-> base.index \o [j \in 1..Len(keep) |-> target.index[keep[j]]],
         docstore |-> base.docstore @@
            [id \in {target.index_to_docstore_id[keep[j]] : j \in 1..Len(keep)}
                |-> target.docstore[id]],
         index_to_docstore_id |-> base.index_to_docstore_id \o
            [j \in 1..Len(keep) |-> target.index_to_docstore_id[keep[j]]]]

\* A merge that keeps the merged-in store instead of the union.
merge_from_replace(base, target) == target

\* vector_store.merge_from(target): target's vectors, Documents and ids are
\* appended to the base index.
merge_from(base, target) ==
    [index |-> base.index \o target.index,
     docstore |-> base.docstore @@ target.docstore,
     index_to_docstore_id |->
        base.index_to_docstore_id \o target.index_to_docstore_id]

\* vector_store.save_local(path): index.faiss and index.pkl.
save_local(store) ==
    [index_faiss |-> store.index,
     index_pkl |-> <<store.docstore, store.index_to_docstore_id>>]

\* A load that rebuilds index_to_docstore_id in the opposite order.
load_local_reordered(files) ==
    [index |-> files.index_faiss,
     docstore |-> files.index_pkl[1],
     index_to_docstore_id |->
        [j \in 1..Len(files.index_pkl[2]) |->
            files.index_pkl[2][Len(files.index_pkl[2]) + 1 - j]]]

\* FAISS.load_local(path, embeddings).
load_local(files) ==
    [index |-> files.index_faiss,
     docstore |-> files.index_pkl[1],
     index_to_docstore_id |-> files.index_pkl[2]]

\* Positions of the store by increasing distance to q; equal distances keep
\* index order.
RECURSIVE RankFrom(_, _, _)
RankFrom(store, q, d) ==
    IF d > EmbedMod - 1 THEN <<>>
    ELSE SelectSeq([j \in 1..Size(store) |-> j],
                   LAMBDA j : Distance(store.index[j], q) = d)
         \o RankFrom(store, q, d + 1)

\* vector_store.search(query, k, search_type="similarity")
search(store, query, k) ==
    LET r == RankFrom(store, Embed(query), 0)
    IN  [j \in 1..Min(k, Len(r)) |->
            store.docstore[store.index_to_docstore_id[r[j]]]]

TheHobbit == <<1, 2>>
Queries == {<<0>>, TheHobbit, <<2, 2>>}

\* ------------------------------------------------------------------ Init
Lengths == {None} \cup {Some(n) : n \in -1..MaxLength}

InitWith(sizes, batches) ==
    /\ pc = "init"
    /\ data_loader_class \in Loaders
    /\ length \in Lengths
    /\ batch_size \in batches
    /\ \E n \in sizes, bad \in 0..MaxBad :
          /\ bad <= n
          /\ n > MaxSmall => bad = 0 /\ length = None
          /\ \E missing \in IF bad = 0 THEN {{}}
                             ELSE MissingChoices(data_loader_class) :
                json_file = Corpus(data_loader_class, n, bad, missing)
    /\ data = None
    /\ documents = None
    /\ vector_store = None
    /\ tempt_vector_store = None
    /\ i = 0
    /\ pbar = None
    /\ built_store = None
    /\ disk = None
    /\ loaded_store = None
    /\ search_results = None
    /\ error = None
    /\ embed_log = <<>>
    /\ uuid = 0

Init == InitWith(0..MaxDocs, {DefaultBatchSize})

\* The same program with batch_size set to other values than 100.
InitB == InitWith(0..MaxDocsB, 1..MaxBatchB)

\* The exception is recorded and the pipeline carries on where it was.
Raise_continue(e) ==
    /\ pc' = pc
    /\ error' = Some(e)

\* An exception leaves process_data: nothing after the raising statement runs.
Raise(e) ==
    /\ pc' = "failed"
    /\ error' = Some(e)

\* ------------------------------------------------------------ process_data
\* EmbeddingManager(model_name), VectorSpaceManager(...), data_loader_class(...)
InitManagers ==
    /\ pc = "init"
    /\ \/ /\ pc' = "load_data"
          /\ UNCHANGED error
       \/ Raise([type |-> "OSError", raised_in |-> "HuggingFaceEmbeddings"])
    /\ UNCHANGED <<data_loader_class, length, json_file, batch_size, data,
                   documents, vector_store, tempt_vector_store, i, pbar,
                   built_store, disk, loaded_store, search_results, embed_log,
                   uuid>>

\* DataLoader.load_data, called first thing by create_documents.
load_data ==
    /\ pc = "load_data"
    /\ \/ /\ pc' = "create_documents"
          /\ data' = Some(json_file)
          /\ UNCHANGED error
       \/ /\ Raise([type |-> "JSONDecodeError", raised_in |-> "load_data"])
          /\ UNCHANGED data
    /\ UNCHANGED <<data_loader_class, length, json_file, batch_size,
                   documents, vector_store, tempt_vector_store, i, pbar,
                   built_store, disk, loaded_store, search_results, embed_log,
                   uuid>>

\* The list comprehension of DataLoader.create_documents and its return.
CreateDocuments ==
    /\ pc = "create_documents"
    /\ IF BadRecords(data_loader_class, Val(data), length) = {}
       THEN /\ documents' =
                  Some(create_documents(data_loader_class, Val(data), length))
            /\ pc' = "seed"
            /\ UNCHANGED error
       ELSE LET j == FirstBad(data_loader_class, Val(data), length)
            IN  /\ Raise([type |-> "KeyError",
                          key |-> MissingFields(data_loader_class,
                                                Val(data)[j])[1],
                          raised_in |-> "get_page_content"])
                /\ UNCHANGED documents
    /\ UNCHANGED <<data_loader_class, length, json_file, batch_size, data,
                   vector_store, tempt_vector_store, i, pbar, built_store,
                   disk, loaded_store, search_results, embed_log, uuid>>

\* ----------------------------------------------------- create_vector_space
\* The outcome of FAISS.from_documents(docs, embeddings): the provider may
\* fail on any call, and an empty list has no first embedding to size the
\* index with (IndexError).
FromDocumentsErrors(docs) ==
    {[type |-> "EmbeddingFailure", raised_in |-> "from_documents"]}
    \cup IF docs = <<>>
         THEN {[type |-> "IndexError", raised_in |-> "from_documents"]}
         ELSE {}

\* A seed that takes two Documents or none.
SeedOf_strict(docs) ==
    IF Len(docs) < SeedSize THEN <<>> ELSE SubSeq(docs, 1, SeedSize)

\* documents[:2]
SeedOf(docs) == PySlice(docs, 0, SeedSize)

\* A batch one Document short.
Batch_short(docs, k, bs) == PySlice(docs, k, k + bs - 1)

\* documents[i:i+batch_size]
Batch(docs, k, bs) == PySlice(docs, k, k + bs)

\* create_vector_space as a function of its input and of the batch size:
\* the loop from index k on, then the whole build.
RECURSIVE MergeBatches(_, _, _, _)
MergeBatches(store, docs, k, bs) ==
    IF k >= Len(docs) THEN store
    ELSE MergeBatches(
            merge_from(store, from_documents(Batch(docs, k, bs), Size(store))),
            docs, k + bs, bs)

create_vector_space(docs, bs) ==
    MergeBatches(from_documents(SeedOf(docs), 0), docs, SeedSize, bs)

\* vector_store = FAISS.from_documents(documents[:2], self.embeddings), then
\* the tqdm bar and batch_size.
Seed ==
    /\ pc = "seed"
    /\ LET docs == SeedOf(Val(documents))
       IN  /\ embed_log' = Append(embed_log, [lo |-> 0, hi |-> Len(docs)])
           /\ \/ /\ docs # <<>>
                 /\ vector_store' = Some(from_documents(docs, uuid))
                 /\ uuid' = uuid + Len(docs)
                 /\ pbar' = Some([n |-> 0, total |-> Len(Val(documents))])
                 /\ i' = SeedSize
                 /\ pc' = "loop"
                 /\ UNCHANGED error
              \/ /\ \E e \in FromDocumentsErrors(docs) : Raise(e)
                 /\ UNCHANGED <<vector_store, uuid, pbar, i>>
    /\ UNCHANGED <<data_loader_class, length, json_file, batch_size, data,
                   documents, tempt_vector_store, built_store, disk,
                   loaded_store, search_results>>

\* for i in range(2, len(documents), batch_size): the next batch is sliced
\* and embedded into a temporary store.
BatchEmbed ==
    /\ pc = "loop"
    /\ i < Len(Val(documents))
    /\ LET batch_documents == Batch(Val(documents), i, batch_size)
       IN  /\ embed_log' = Append(embed_log,
                                  [lo |-> i, hi |-> i + Len(batch_documents)])
           /\ \/ /\ batch_documents # <<>>
                 /\ tempt_vector_store' =
                        Some(from_documents(batch_documents, uuid))
                 /\ uuid' = uuid + Len(batch_documents)
                 /\ pc' = "merge"
                 /\ UNCHANGED error
              \/ /\ \E e \in FromDocumentsErrors(batch_documents) : Raise(e)
                 /\ UNCHANGED <<tempt_vector_store, uuid>>
    /\ UNCHANGED <<data_loader_class, length, json_file, batch_size, data,
                   documents, vector_store, i, pbar, built_store, disk,
                   loaded_store, search_results>>

\* vector_store.merge_from(tempt_vector_store)
Merge ==
    /\ pc = "merge"
    /\ vector_store' =
          Some(merge_from(Val(vector_store), Val(tempt_vector_store)))
    /\ pc' = "update"
    /\ UNCHANGED <<data_loader_class, length, json_file, batch_size, data,
                   documents, tempt_vector_store, i, pbar, built_store, disk,
                   loaded_store, search_results, error, embed_log, uuid>>

\* pbar.update(len(batch_documents)), then the next value of the range.
Update ==
    /\ pc = "update"
    /\ pbar' = Some([Val(pbar) EXCEPT
                        !.n = @ + Size(Val(tempt_vector_store))])
    /\ i' = i + batch_size
    /\ pc' = "loop"
    /\ UNCHANGED <<data_loader_class, length, json_file, batch_size, data,
                   documents, vector_store, tempt_vector_store, built_store,
                   disk, loaded_store, search_results, error, embed_log, uuid>>

\* The range is exhausted: return vector_store (bound at process_data).
Return ==
    /\ pc = "loop"
    /\ i >= Len(Val(documents))
    /\ built_store' = vector_store
    /\ pc' = "save"
    /\ UNCHANGED <<data_loader_class, length, json_file, batch_size, data,
                   documents, vector_store, tempt_vector_store, i, pbar, disk,
                   loaded_store, search_results, error, embed_log, uuid>>

\* ------------------------------------------------------- save, load, search
save_vector_space ==
    /\ pc = "save"
    /\ \/ /\ disk' = Some(save_local(Val(built_store)))
          /\ pc' = "load"
          /\ UNCHANGED error
       \/ /\ Raise([type |-> "OSError", raised_in |-> "save_local"])
          /\ UNCHANGED disk
    /\ UNCHANGED <<data_loader_class, length, json_file, batch_size, data,
                   documents, vector_store, tempt_vector_store, i, pbar,
                   built_store, loaded_store, search_results, embed_log, uuid>>

load_vector_space ==
    /\ pc = "load"
    /\ \/ /\ loaded_store' = Some(load_local(Val(disk)))
          /\ pc' = "search"
          /\ UNCHANGED error
       \/ /\ Raise([type |-> "OSError", raised_in |-> "load_local"])
          /\ UNCHANGED loaded_store
    /\ UNCHANGED <<data_loader_class, length, json_file, batch_size, data,
                   documents, vector_store, tempt_vector_store, i, pbar,
                   built_store, disk, search_results, embed_log, uuid>>

\* search_results = vector_store.search("The Hobbit", k=2, ...)
SmokeTest ==
    /\ pc = "search"
    /\ \/ /\ search_results' =
                Some(search(Val(loaded_store), TheHobbit, SearchK))
          /\ pc' = "done"
          /\ UNCHANGED error
       \/ /\ Raise([type |-> "EmbeddingFailure", raised_in |-> "search"])
          /\ UNCHANGED search_results
    /\ UNCHANGED <<data_loader_class, length, json_file, batch_size, data,
                   documents, vector_store, tempt_vector_store, i, pbar,
                   built_store, disk, loaded_store, embed_log, uuid>>

Next ==
    \/ InitManagers
    \/ load_data
    \/ CreateDocuments
    \/ Seed
    \/ BatchEmbed
    \/ Merge
    \/ Update
    \/ Return
    \/ save_vector_space
    \/ load_vector_space
    \/ SmokeTest

Spec == Init /\ [][Next]_vars

SpecB == InitB /\ [][Next]_vars

\* ------------------------------------------------------------- properties
Range(s) == {s[j] : j \in DOMAIN s}

Count(d, s) == Cardinality({j \in DOMAIN s : s[j] = d})

\* The two sequences hold the same elements, each as many times.
SameBag(s, t) ==
    /\ Len(s) = Len(t)
    /\ \A d \in Range(s) \cup Range(t) : Count(d, s) = Count(d, t)

\* The entries of a store: Document and stored vector, in index order.
Entries(store) ==
    [j \in 1..Size(store) |->
        [doc |-> store.docstore[store.index_to_docstore_id[j]],
         vector |-> store.index[j]]]

Min2(a, b) == IF a <= b THEN a ELSE b

\* C1: when create_vector_space returns for N >= 1 Documents, the index holds
\* exactly N entries: every input Document once per occurrence in the input
\* (none lost, none duplicated), with its text, its metadata and the vector
\* of its text.
C1_ExactlyN ==
    (IsSome(built_store) /\ Len(Val(documents)) >= 1) =>
        LET st == Val(built_store)
            docs == Val(documents)
            held == DocsOf(st)
        IN  /\ Size(st) = Len(docs)
            /\ Len(st.index_to_docstore_id) = Len(docs)
            /\ Cardinality(DOMAIN st.docstore) = Len(docs)
            /\ SameBag(held, docs)
            /\ \A j \in 1..Size(st) :
                  st.index[j] = <<SumSeq(held[j].page_content) % EmbedMod>>

C1_Witness ==
    /\ IsSome(built_store)
    /\ Len(Val(documents)) > SeedSize + 2 * DefaultBatchSize
    /\ Len(embed_log) = 4

\* C6: a build from exactly 2 Documents makes one seed embedding of both and
\* never enters the loop body; a build from exactly 1 Document seeds with that
\* one Document (documents[:2] clamps) and does not enter the loop body
\* either; unless the provider fails, both builds return an index of all
\* the Documents.
C6_SmallBuilds ==
    (IsSome(documents) /\ Len(Val(documents)) \in {1, 2}) =>
        LET n == Len(Val(documents))
        IN  /\ pc \notin {"merge", "update"}
            /\ tempt_vector_store = None
            /\ embed_log \in {<<>>, <<[lo |-> 0, hi |-> n]>>}
            /\ (IsSome(error) /\ Val(error).raised_in = "from_documents")
                  => Val(error).type = "EmbeddingFailure"
            /\ pc = "loop" => Size(Val(vector_store)) = n
            /\ pc \in {"save", "load", "search", "done"}
                  => /\ IsSome(built_store)
                     /\ Size(Val(built_store)) = n
                     /\ embed_log = <<[lo |-> 0, hi |-> n]>>
                     /\ Val(pbar).n = 0

C6_Witness ==
    /\ IsSome(built_store)
    /\ Len(Val(documents)) = 1
    /\ Size(Val(built_store)) = 1
    /\ Len(embed_log) = 1

\* C8: for a corpus of N valid records and a limit L >= 0 (or none),
\* create_documents returns min(L, N) Documents (N without a limit); the j-th
\* is the projection of the j-th record and carries that record as metadata.
C8_Prefix ==
    (IsSome(documents) /\ (length = None \/ Val(length) >= 0)) =>
        LET docs == Val(documents)
            n == Len(json_file)
            fo == FieldOrder(data_loader_class)
        IN  /\ Len(docs) = IF length = None THEN n ELSE Min2(Val(length), n)
            /\ \A j \in 1..Len(docs) :
                  /\ docs[j].metadata = json_file[j]
                  /\ docs[j].page_content =
                        IF data_loader_class = "BookDataLoader"
                        THEN <<json_file[j][fo[1]], json_file[j][fo[2]],
                               json_file[j][fo[3]], json_file[j][fo[4]]>>
                             \o json_file[j][fo[5]]
                        ELSE <<json_file[j][fo[1]], json_file[j][fo[2]],
                               json_file[j][fo[3]]>>
                             \o json_file[j][fo[4]] \o json_file[j][fo[5]]

C8_Witness ==
    /\ IsSome(documents)
    /\ IsSome(length)
    /\ Val(length) = 2
    /\ Len(json_file) > 3
    /\ Len(Val(documents)) = 2

\* C10: the seed is documents[0:min(2,N)]; batch b (b = 0, 1, ...) starts at
\* 2 + 100*b, is not empty, ends 100 further or at N, and starts where the
\* previous call ended; a batch is embedded only when everything before it
\* is merged into the base index; a finished build has covered 0..N.
C10_Batches ==
    IsSome(documents) =>
        LET n == Len(Val(documents))
        IN  /\ embed_log # <<>> =>
                  embed_log[1] = [lo |-> 0, hi |-> Min2(SeedSize, n)]
            /\ \A k \in 2..Len(embed_log) :
                  /\ embed_log[k].lo = SeedSize + DefaultBatchSize * (k - 2)
                  /\ embed_log[k].lo = embed_log[k - 1].hi
                  /\ embed_log[k].hi > embed_log[k].lo
                  /\ embed_log[k].hi = Min2(embed_log[k].lo + DefaultBatchSize, n)
                  /\ k < Len(embed_log) =>
                        embed_log[k].hi - embed_log[k].lo = DefaultBatchSize
            /\ pc = "merge" =>
                  Size(Val(vector_store)) = embed_log[Len(embed_log)].lo
            /\ pc \in {"update", "loop"} =>
                  /\ Size(Val(vector_store)) = embed_log[Len(embed_log)].hi
                  /\ DocsOf(Val(vector_store)) =
                        SubSeq(Val(documents), 1, Size(Val(vector_store)))
            /\ IsSome(built_store) => embed_log[Len(embed_log)].hi = n

\* Three Documents: seed {A, B}, then one batch {C}.
C10_Witness ==
    /\ IsSome(built_store)
    /\ Len(Val(documents)) = 3
    /\ embed_log = <<[lo |-> 0, hi |-> 2], [lo |-> 2, hi |-> 3]>>
    /\ Size(Val(built_store)) = 3

\* FAISS.from_documents failed on a batch of the loop (not on the seed).
BatchFailure ==
    /\ IsSome(error)
    /\ Val(error).raised_in = "from_documents"
    /\ Len(embed_log) >= 2

\* C2 as claimed: when embedding fails on batch j >= 1 the build raises
\* BuildFailed(at_offset, cause) with at_offset the number of Documents
\* merged so far, and the error carries the base index of exactly those.
C2_BuildFailed ==
    BatchFailure =>
        /\ Val(error).type = "BuildFailed"
        /\ "at_offset" \in DOMAIN Val(error)
        /\ Val(error).at_offset = embed_log[Len(embed_log)].lo
        /\ "index" \in DOMAIN Val(error)
        /\ DocsOf(Val(error).index) =
              SubSeq(Val(documents), 1, embed_log[Len(embed_log)].lo)

\* C2 amended: when embedding fails on batch j >= 1 the provider's exception
\* leaves create_vector_space as it is (no BuildFailed, no offset, no index
\* in it) and the caller is handed no index; nothing is saved or loaded. The
\* base index as the failure found it holds exactly the seed and batches
\* 1..j-1, in order: SeedSize + (j-1)*batch_size Documents, more than none
\* and fewer than all.
C2_Amended ==
    BatchFailure =>
        LET j == Len(embed_log) - 1
            merged == SeedSize + (j - 1) * batch_size
        IN  /\ pc = "failed"
            /\ Val(error) = [type |-> "EmbeddingFailure",
                             raised_in |-> "from_documents"]
            /\ built_store = None
            /\ disk = None
            /\ loaded_store = None
            /\ Size(Val(vector_store)) = merged
            /\ DocsOf(Val(vector_store)) = SubSeq(Val(documents), 1, merged)
            /\ 0 < merged
            /\ merged < Len(Val(documents))

\* Embedding fails on the second batch of a three-batch build.
C2_Witness ==
    /\ BatchFailure
    /\ Len(embed_log) = 3
    /\ Len(Val(documents)) > SeedSize + 2 * DefaultBatchSize
    /\ Size(Val(vector_store)) = SeedSize + DefaultBatchSize

\* C3 (SpecB): the build with batch size B returns the same Documents, each
\* as many times and with the same vector, as the build of the same input
\* with batch size 2B; so the two indexes hold the same set of Documents.
C3_BatchSizeIrrelevant ==
    IsSome(built_store) =>
        LET twice == create_vector_space(Val(documents), 2 * batch_size)
        IN  /\ SameBag(Entries(Val(built_store)), Entries(twice))
            /\ Range(DocsOf(Val(built_store))) = Range(DocsOf(twice))
            /\ Size(twice) = Len(Val(documents))

\* Four batches of size B against two of size 2B.
C3_Witness ==
    /\ IsSome(built_store)
    /\ batch_size = 2
    /\ Len(embed_log) = 5
    /\ Len(Val(documents)) = 9

\* The values of k tried: the small ones and the size of the index.
SearchSizes(store) ==
    {k \in 1..Size(store) : k <= MaxK \/ k = Size(store)}

StageRank(p) ==
    CASE p = "init" -> 0
      [] p = "load_data" -> 1
      [] p = "create_documents" -> 2
      [] p = "seed" -> 3
      [] p \in {"loop", "merge", "update"} -> 4
      [] p = "save" -> 5
      [] p = "load" -> 6
      [] p = "search" -> 7
      [] p = "done" -> 8
      [] OTHER -> 9

\* The result of a stage exists exactly when the pipeline is past the stage;
\* a failure leaves the results of its stage and of the later ones absent.
C5_Artifacts ==
    /\ IsSome(search_results) => IsSome(loaded_store)
    /\ IsSome(loaded_store) => IsSome(disk)
    /\ IsSome(disk) => IsSome(built_store)
    /\ IsSome(built_store) => IsSome(documents) /\ IsSome(vector_store)
    /\ embed_log # <<>> => IsSome(documents)
    /\ IsSome(documents) => IsSome(data)
    /\ pc # "failed" =>
          /\ IsSome(data) <=> StageRank(pc) >= 2
          /\ IsSome(documents) <=> StageRank(pc) >= 3
          /\ embed_log # <<>> <=> StageRank(pc) >= 4
          /\ IsSome(built_store) <=> StageRank(pc) >= 5
          /\ IsSome(disk) <=> StageRank(pc) >= 6
          /\ IsSome(loaded_store) <=> StageRank(pc) >= 7
          /\ IsSome(search_results) <=> StageRank(pc) >= 8
    /\ IsSome(error) <=> pc = "failed"
    /\ IsSome(error) =>
          LET at == Val(error).raised_in
          IN  /\ at = "HuggingFaceEmbeddings" => data = None
              /\ at = "load_data" => data = None
              /\ at = "get_page_content"
                    => documents = None /\ embed_log = <<>>
              /\ at = "from_documents" => built_store = None
              /\ at = "save_local" => disk = None
              /\ at = "load_local" => loaded_store = None
              /\ at = "search" => search_results = None

\* A step stays in its stage, enters the next one, or fails for good.
C5_Steps ==
    /\ pc = "failed" => pc' = "failed"
    /\ pc' # "failed" => StageRank(pc') \in {StageRank(pc), StageRank(pc) + 1}

\* C5: the stages run in the order load corpus, build Documents, build
\* index, persist, reload, query; each starts when the previous one is
\* complete; after a failure nothing runs, so the results of the failed
\* stage and of all later ones are absent.
C5_StageOrder == [](C5_Artifacts) /\ [][C5_Steps]_vars

\* A Document-building failure: no embedding, no save, no load, no query.
C5_Witness ==
    /\ pc = "failed"
    /\ Val(error).raised_in = "get_page_content"
    /\ embed_log = <<>>
    /\ disk = None

\* get_page_content raised on a record that lacks a field.
SchemaFailure ==
    /\ IsSome(error)
    /\ Val(error).raised_in = "get_page_content"

\* C7 as claimed: when record i within the limit lacks a required field,
\* create_documents fails with RecordSchemaError naming the field and the
\* record index i, and returns no Documents.
C7_RecordSchemaError ==
    SchemaFailure =>
        /\ documents = None
        /\ "key" \in DOMAIN Val(error)
        /\ "index" \in DOMAIN Val(error)
        /\ \E j \in 1..Len(json_file) :
              /\ Val(error).index = j - 1
              /\ Val(error).key \notin DOMAIN json_file[j]

\* C7 amended: when a record within the limit lacks a required field,
\* create_documents fails with KeyError whose argument is the first field, in
\* the order the projection reads them, that the first such record lacks;
\* the error names no record index; no Documents are returned (none for the
\* records before it either) and nothing is embedded.
C7_Amended ==
    SchemaFailure =>
        LET e == Val(error)
            fo == FieldOrder(data_loader_class)
            n == IF length = None THEN Len(json_file)
                 ELSE IF Val(length) < 0
                      THEN Len(json_file) + Val(length)
                      ELSE Min2(Val(length), Len(json_file))
            Complete(j) == \A f \in Range(fo) : f \in DOMAIN json_file[j]
        IN  /\ DOMAIN e = {"type", "key", "raised_in"}
            /\ e.type = "KeyError"
            /\ documents = None
            /\ embed_log = <<>>
            /\ \E j \in 1..n :
                  /\ \A m \in 1..(j - 1) : Complete(m)
                  /\ \E x \in 1..Len(fo) :
                        /\ e.key = fo[x]
                        /\ fo[x] \notin DOMAIN json_file[j]
                        /\ \A y \in 1..(x - 1) : fo[y] \in DOMAIN json_file[j]

\* The third record lacks two fields: the error names the one read first.
C7_Witness ==
    /\ SchemaFailure
    /\ Len(json_file) > 3
    /\ Cardinality(DOMAIN json_file[1]) = Cardinality(DOMAIN json_file[2])
    /\ Cardinality(DOMAIN json_file[3]) = Cardinality(DOMAIN json_file[1]) - 2

\* C9 as claimed: after each batch merge the bar shows the number of
\* Documents now in the base index, seed included, and N when a build with
\* at least one batch completes.
C9_CumulativeProgress ==
    /\ (pc = "loop" /\ Len(embed_log) >= 2) =>
          Val(pbar).n = Size(Val(vector_store))
    /\ (IsSome(built_store) /\ Len(embed_log) >= 2) =>
          Val(pbar).n = Len(Val(documents))

====
